---------------------------- MODULE Spec2Model ----------------------------
(***************************************************************************)
(* Storage engine of hypercore (src/src/storage/mod.rs): four byte stores  *)
(* (tree, data, bitfield, signatures), the header written at construction, *)
(* and the node / signature / bitfield / data operations that turn a       *)
(* logical index into a byte offset of a store.                            *)
(*                                                                         *)
(* usize values are 64 bits wide and are kept as four 16-bit limbs, least  *)
(* significant first, so that `HEADER_OFFSET + 40 * index` is computed at  *)
(* the width the program computes it.  An arithmetic overflow panics in a  *)
(* build with overflow checks and wraps in a build without them.           *)
(***************************************************************************)
EXTENDS Integers, Sequences, FiniteSets, TLC

VARIABLES
  engine,           \* "Uninitialized" or "Open"
  overflow_checks,  \* the build: TRUE panics on usize overflow, FALSE wraps
  tree, data, bitfield, signatures,   \* the four byte stores
  created,          \* how many times create(kind) was called, per kind
  calls,            \* how many calls the open engine has served
  call,             \* the last call and its arguments
  ret,              \* what the last call returned
  io                \* the reads and writes the last call issued to the stores

vars == <<engine, overflow_checks, tree, data, bitfield, signatures,
          created, calls, call, ret, io>>

stores == <<tree, data, bitfield, signatures>>

-----------------------------------------------------------------------------
(* Results, tree nodes, and the records of a call and of its reads and     *)
(* writes.                                                                 *)

Ok(v) == [tag |-> "Ok", val |-> v]
Err(e) == [tag |-> "Err", val |-> e]
Panic(m) == [tag |-> "Panic", val |-> m]
Some(v) == [tag |-> "Some", val |-> v]
None == [tag |-> "None", val |-> <<>>]

Call(op, index, node, bytes, nodes, fail, roots) ==
  [op |-> op, index |-> index, node |-> node, bytes |-> bytes,
   nodes |-> nodes, fail |-> fail, roots |-> roots]

Write(store, offset, len, ok) ==
  [op |-> "write", store |-> store, offset |-> offset, len |-> len, ok |-> ok]

Read(store, offset, len, ok) ==
  [op |-> "read", store |-> store, offset |-> offset, len |-> len, ok |-> ok]

\* a tree node: its flat-tree index, its hash, the byte length under it
Node(index, hash, length) == [index |-> index, hash |-> hash, length |-> length]

\* what data_offset returns and the roots it collected
Outcome(result, collected) == [result |-> result, collected |-> collected]

-----------------------------------------------------------------------------
(* Bounds of the model.                                                    *)

\* node and signature records 0..MaxRecord are written and read
MaxRecord == 1
\* blocks 0..MaxBlock are resolved by data_offset / put_data
MaxBlock == 5
\* calls made on an engine after its construction
MaxCalls == 2

-----------------------------------------------------------------------------
(* usize: 64-bit unsigned arithmetic on four 16-bit limbs.                 *)

LimbBase == 2 ^ 16

\* the usize holding the small natural n (n < 2^31)
U(n) == <<n % LimbBase, (n \div LimbBase) % LimbBase, 0, 0>>

\* the natural a usize holds, for values below 2^31
ToNat(u) == u[1] + LimbBase * u[2]

IsSmall(u) == u[3] = 0 /\ u[4] = 0 /\ u[2] < 2 ^ 14

\* a + b at 64 bits: the wrapped sum and whether it overflowed
UsizeAdd(a, b) ==
  LET s1 == a[1] + b[1]
      s2 == a[2] + b[2] + (s1 \div LimbBase)
      s3 == a[3] + b[3] + (s2 \div LimbBase)
      s4 == a[4] + b[4] + (s3 \div LimbBase)
  IN  [val |-> <<s1 % LimbBase, s2 % LimbBase, s3 % LimbBase, s4 % LimbBase>>,
       overflow |-> s4 \div LimbBase > 0]

\* k * a at 64 bits, k a small constant: the wrapped product and whether it
\* overflowed
UsizeMul(k, a) ==
  LET p1 == k * a[1]
      p2 == k * a[2] + (p1 \div LimbBase)
      p3 == k * a[3] + (p2 \div LimbBase)
      p4 == k * a[4] + (p3 \div LimbBase)
  IN  [val |-> <<p1 % LimbBase, p2 % LimbBase, p3 % LimbBase, p4 % LimbBase>>,
       overflow |-> p4 \div LimbBase > 0]

UsizeLess(a, b) ==
  \/ a[4] < b[4]
  \/ a[4] = b[4] /\ a[3] < b[3]
  \/ a[4] = b[4] /\ a[3] = b[3] /\ a[2] < b[2]
  \/ a[4] = b[4] /\ a[3] = b[3] /\ a[2] = b[2] /\ a[1] < b[1]

UsizeLeq(a, b) == a = b \/ UsizeLess(a, b)

UsizeMax(a, b) == IF UsizeLess(a, b) THEN b ELSE a

\* usize::MAX - 31 = 2^64 - 32: the offset at which HEADER_OFFSET + offset is 2^64
TopOffset == <<LimbBase - 32, LimbBase - 1, LimbBase - 1, LimbBase - 1>>

-----------------------------------------------------------------------------
(* Byte stores (random_access_storage): the bytes of the store, from       *)
(* offset 0 (element k is the byte at offset k - 1); a write past the end  *)
(* extends the store, and bytes never written read as 0.  The offsets that *)
(* reach a store in this model are below 2^30, so a store holds them as    *)
(* naturals.                                                               *)

EmptyStore == <<>>

Max(a, b) == IF a < b THEN b ELSE a

\* write(offset, bytes): overwrite the range, extend the store as needed
StoreWrite(s, off, bytes) ==
  LET o == ToNat(off)
      n == Len(bytes)
  IN  [k \in 1..Max(Len(s), o + n) |->
         IF o < k /\ k <= o + n THEN bytes[k - o]
         ELSE IF k <= Len(s) THEN s[k]
         ELSE 0]

\* read(offset, length) succeeds when the range lies inside the store
CanRead(s, off, n) == IsSmall(off) /\ ToNat(off) + n <= Len(s)

StoreRead(s, off, n) == SubSeq(s, ToNat(off) + 1, ToNat(off) + n)

-----------------------------------------------------------------------------
(* Program constants and the three store headers (sleep_parser).           *)

HEADER_OFFSET == 32

Kinds == {"Tree", "Data", "Bitfield", "Signatures"}

Pad(bytes, n) == bytes \o [k \in 1..(n - Len(bytes)) |-> 0]

\* magic 05 02 57 <kind>, version 0, entry size (big endian), the length of
\* the algorithm name, the name, zeros up to 32 bytes
create_bitfield == Pad(<<5, 2, 87, 0, 0, 13, 0, 0>>, HEADER_OFFSET)

create_signatures ==
  Pad(<<5, 2, 87, 1, 0, 0, 64, 7, 69, 100, 50, 53, 53, 49, 57>>, HEADER_OFFSET)

create_tree ==
  Pad(<<5, 2, 87, 2, 0, 0, 40, 7, 66, 76, 65, 75, 69, 50, 98>>, HEADER_OFFSET)

-----------------------------------------------------------------------------
(* Tree node records: 32 bytes of hash, then the size as 8 bytes, big      *)
(* endian.                                                                 *)

\* the 8 bytes of a usize, most significant first
BigEndian8(u) ==
  <<u[4] \div 256, u[4] % 256, u[3] \div 256, u[3] % 256,
    u[2] \div 256, u[2] % 256, u[1] \div 256, u[1] % 256>>

FromBigEndian8(b) ==
  <<b[7] * 256 + b[8], b[5] * 256 + b[6], b[3] * 256 + b[4], b[1] * 256 + b[2]>>

\* Node::to_vec
to_vec(node) == node.hash \o BigEndian8(node.length)

\* Node::from_vec
from_vec(index, buf) ==
  IF Len(buf) # 40
  THEN Err("Corrupt")
  ELSE Ok(Node(index, SubSeq(buf, 1, 32), FromBigEndian8(SubSeq(buf, 33, 40))))

-----------------------------------------------------------------------------
(* Flat-tree addressing (flat_tree).                                       *)

RECURSIVE Factor(_, _)
\* the largest power of two f * 2^k that is at most tmp
Factor(f, tmp) == IF 2 * f <= tmp THEN Factor(2 * f, tmp) ELSE f

RECURSIVE FullRootsLoop(_, _, _)
FullRootsLoop(tmp, offset, nodes) ==
  IF tmp = 0
  THEN nodes
  ELSE LET factor == Factor(1, tmp)
       IN  FullRootsLoop(tmp - factor, offset + 2 * factor,
                         Append(nodes, offset + factor - 1))

\* flat::full_roots(index, &mut nodes), index even
full_roots(index) == FullRootsLoop(index \div 2, 0, <<>>)

\* find_node: the first node of the list with the index
find_node(nodes, index) ==
  IF \E k \in 1..Len(nodes) : nodes[k].index = index
  THEN Some(nodes[CHOOSE k \in 1..Len(nodes) :
                    /\ nodes[k].index = index
                    /\ \A j \in 1..(k - 1) : nodes[j].index # index])
  ELSE None

-----------------------------------------------------------------------------
(* Values that stand for nothing.                                          *)

Unit == <<>>
NoNode == Node(U(0), <<>>, U(0))

\* a usize computation panics when it overflows in a build with overflow checks
Overflows(r) == r.overflow /\ overflow_checks

-----------------------------------------------------------------------------
(* Inputs.                                                                 *)

HashA == [k \in 1..32 |-> k]
HashB == [k \in 1..32 |-> 255 - k]

\* (3 * 2^61 - 1) / 5: the index at which HEADER_OFFSET + 40 * index is 2^64 + 24
WrapIndex == <<13107, 13107, 13107, 4915>>

RecordIndexes == {U(n) : n \in 0..MaxRecord}

NodeIndexes == RecordIndexes \cup {WrapIndex}

\* a node to write at index: one of two (hash, size) pairs
NodeInputs(index) ==
  {Node(index, HashA, U(10)), Node(index, HashB, U(300))}

\* a signature of 64 bytes and a byte sequence of 65
SignatureInputs == {[k \in 1..64 |-> 100 + k], [k \in 1..65 |-> 200]}

BitfieldOffsets == {U(0), TopOffset}

BitfieldInputs == {<<1>>, <<2, 3>>}

BlockIndexes == {U(n) : n \in 0..MaxBlock}

DataInputs == {<<>>, <<7>>, [k \in 1..10 |-> 40 + k]}

CachedNode(index, size) == Node(U(index), <<>>, U(size))

\* no node; the leaf of block 0; every node the blocks 0..3 need
CacheInputs ==
  {<<>>,
   <<CachedNode(0, 10)>>,
   <<CachedNode(0, 10), CachedNode(1, 15), CachedNode(2, 5),
     CachedNode(4, 7), CachedNode(6, 3)>>}

FailInputs == {"none", "Bitfield", "Signatures", "Tree"}

-----------------------------------------------------------------------------
(* Construction.                                                           *)

\* with_storage that writes a header to every store it created
with_storage_all_headers(failAt) ==
  LET bitfieldOk == failAt # "Bitfield"
      signaturesOk == bitfieldOk /\ failAt # "Signatures"
      treeOk == signaturesOk /\ failAt # "Tree"
  IN
  /\ engine = "Uninitialized"
  /\ created' = [k \in Kinds |-> 1]
  /\ data' = IF treeOk THEN StoreWrite(EmptyStore, U(0), create_tree) ELSE EmptyStore
  /\ bitfield' = IF bitfieldOk
                 THEN StoreWrite(EmptyStore, U(0), create_bitfield)
                 ELSE EmptyStore
  /\ signatures' = IF signaturesOk
                   THEN StoreWrite(EmptyStore, U(0), create_signatures)
                   ELSE EmptyStore
  /\ tree' = IF treeOk
             THEN StoreWrite(EmptyStore, U(0), create_tree)
             ELSE EmptyStore
  /\ io' = <<Write("Bitfield", U(0), Len(create_bitfield), bitfieldOk)>>
           \o (IF bitfieldOk
               THEN <<Write("Signatures", U(0), Len(create_signatures), signaturesOk)>>
               ELSE <<>>)
           \o (IF signaturesOk
               THEN <<Write("Tree", U(0), Len(create_tree), treeOk)>>
               ELSE <<>>)
  /\ engine' = IF treeOk THEN "Open" ELSE "Uninitialized"
  /\ ret' = IF treeOk THEN Ok(Unit) ELSE Err("BackendFailure")
  /\ call' = Call("with_storage", U(0), NoNode, <<>>, <<>>, failAt, <<>>)
  /\ calls' = 0
  /\ UNCHANGED overflow_checks

\* with_storage that drops the result of each header write instead of
\* returning it
with_storage_unchecked(failAt) ==
  /\ engine = "Uninitialized"
  /\ created' = [k \in Kinds |-> 1]
  /\ data' = EmptyStore
  /\ bitfield' = IF failAt # "Bitfield"
                 THEN StoreWrite(EmptyStore, U(0), create_bitfield)
                 ELSE EmptyStore
  /\ signatures' = IF failAt # "Signatures"
                   THEN StoreWrite(EmptyStore, U(0), create_signatures)
                   ELSE EmptyStore
  /\ tree' = IF failAt # "Tree"
             THEN StoreWrite(EmptyStore, U(0), create_tree)
             ELSE EmptyStore
  /\ io' = <<Write("Bitfield", U(0), Len(create_bitfield), failAt # "Bitfield"),
             Write("Signatures", U(0), Len(create_signatures), failAt # "Signatures"),
             Write("Tree", U(0), Len(create_tree), failAt # "Tree")>>
  /\ engine' = "Open"
  /\ ret' = Ok(Unit)
  /\ call' = Call("with_storage", U(0), NoNode, <<>>, <<>>, failAt, <<>>)
  /\ calls' = 0
  /\ UNCHANGED overflow_checks

\* with_storage, given the header write that the backend fails ("none": no
\* write fails).  create is called once per kind; the headers are written in
\* the order bitfield, signatures, tree; `?` returns at the first failure and
\* the instance is dropped.
with_storage(failAt) ==
  LET bitfieldOk == failAt # "Bitfield"
      signaturesOk == bitfieldOk /\ failAt # "Signatures"
      treeOk == signaturesOk /\ failAt # "Tree"
  IN
  /\ engine = "Uninitialized"
  /\ created' = [k \in Kinds |-> 1]
  /\ data' = EmptyStore
  /\ bitfield' = IF bitfieldOk
                 THEN StoreWrite(EmptyStore, U(0), create_bitfield)
                 ELSE EmptyStore
  /\ signatures' = IF signaturesOk
                   THEN StoreWrite(EmptyStore, U(0), create_signatures)
                   ELSE EmptyStore
  /\ tree' = IF treeOk
             THEN StoreWrite(EmptyStore, U(0), create_tree)
             ELSE EmptyStore
  /\ io' = <<Write("Bitfield", U(0), Len(create_bitfield), bitfieldOk)>>
           \o (IF bitfieldOk
               THEN <<Write("Signatures", U(0), Len(create_signatures), signaturesOk)>>
               ELSE <<>>)
           \o (IF signaturesOk
               THEN <<Write("Tree", U(0), Len(create_tree), treeOk)>>
               ELSE <<>>)
  /\ engine' = IF treeOk THEN "Open" ELSE "Uninitialized"
  /\ ret' = IF treeOk THEN Ok(Unit) ELSE Err("BackendFailure")
  /\ call' = Call("with_storage", U(0), NoNode, <<>>, <<>>, failAt, <<>>)
  /\ calls' = 0
  /\ UNCHANGED overflow_checks

\* a call on the open engine, counted
Serve == engine = "Open" /\ calls < MaxCalls /\ calls' = calls + 1

-----------------------------------------------------------------------------
(* Tree nodes.                                                             *)

\* HEADER_OFFSET + 40 * index, as put_node computes it
PutNodeOffset(index) ==
  LET m == UsizeMul(40, index)
      a == UsizeAdd(U(HEADER_OFFSET), m.val)
  IN  [val |-> a.val, overflow |-> m.overflow \/ a.overflow]

\* HEADER_OFFSET + 40 * index, as get_node computes it
GetNodeOffset(index) ==
  LET m == UsizeMul(40, index)
      a == UsizeAdd(U(HEADER_OFFSET), m.val)
  IN  [val |-> a.val, overflow |-> m.overflow \/ a.overflow]

\* put_node; fail: the backend fails the write
put_node(index, node, fail) ==
  LET buf == to_vec(node)
      off == PutNodeOffset(index)
  IN
  /\ Serve
  /\ call' = Call("put_node", index, node, <<>>, <<>>,
                  IF fail THEN "Tree" ELSE "none", <<>>)
  /\ IF Overflows(off)
     THEN /\ ret' = Panic("arithmetic overflow")
          /\ io' = <<>>
          /\ UNCHANGED tree
     ELSE IF fail
     THEN /\ ret' = Err("BackendFailure")
          /\ io' = <<Write("Tree", off.val, Len(buf), FALSE)>>
          /\ UNCHANGED tree
     ELSE /\ ret' = Ok(Unit)
          /\ io' = <<Write("Tree", off.val, Len(buf), TRUE)>>
          /\ tree' = StoreWrite(tree, off.val, buf)
  /\ UNCHANGED <<engine, overflow_checks, data, bitfield, signatures, created>>

\* get_node; fail: the backend fails the read. A read outside the store
\* fails as well.
get_node(index, fail) ==
  LET off == GetNodeOffset(index)
  IN
  /\ Serve
  /\ call' = Call("get_node", index, NoNode, <<>>, <<>>,
                  IF fail THEN "Tree" ELSE "none", <<>>)
  /\ IF Overflows(off)
     THEN /\ ret' = Panic("arithmetic overflow")
          /\ io' = <<>>
     ELSE IF fail
     THEN /\ ret' = Err("BackendFailure")
          /\ io' = <<Read("Tree", off.val, 40, FALSE)>>
     ELSE IF ~CanRead(tree, off.val, 40)
     THEN /\ ret' = Err("OutOfRange")
          /\ io' = <<Read("Tree", off.val, 40, FALSE)>>
     ELSE /\ ret' = from_vec(index, StoreRead(tree, off.val, 40))
          /\ io' = <<Read("Tree", off.val, 40, TRUE)>>
  /\ UNCHANGED <<engine, overflow_checks, stores, created>>

-----------------------------------------------------------------------------
(* Signatures and the bitfield.                                            *)

\* HEADER_OFFSET + 64 * index
SignatureOffset(index) ==
  LET m == UsizeMul(64, index)
      a == UsizeAdd(U(HEADER_OFFSET), m.val)
  IN  [val |-> a.val, overflow |-> m.overflow \/ a.overflow]

\* put_signature: the bytes are written as they are, whatever their length,
\* and the result of the write is returned; fail: the backend fails the write
put_signature(index, signature, fail) ==
  LET off == SignatureOffset(index)
  IN
  /\ Serve
  /\ call' = Call("put_signature", index, NoNode, signature, <<>>,
                  IF fail THEN "Signatures" ELSE "none", <<>>)
  /\ IF Overflows(off)
     THEN /\ ret' = Panic("arithmetic overflow")
          /\ io' = <<>>
          /\ UNCHANGED signatures
     ELSE IF fail
     THEN /\ ret' = Err("BackendFailure")
          /\ io' = <<Write("Signatures", off.val, Len(signature), FALSE)>>
          /\ UNCHANGED signatures
     ELSE /\ ret' = Ok(Unit)
          /\ io' = <<Write("Signatures", off.val, Len(signature), TRUE)>>
          /\ signatures' = StoreWrite(signatures, off.val, signature)
  /\ UNCHANGED <<engine, overflow_checks, tree, data, bitfield, created>>

\* HEADER_OFFSET + offset
BitfieldOffset(offset) == UsizeAdd(U(HEADER_OFFSET), offset)

\* put_bitfield: the result of the write is returned; fail: the backend
\* fails the write
put_bitfield(offset, bytes, fail) ==
  LET off == BitfieldOffset(offset)
  IN
  /\ Serve
  /\ call' = Call("put_bitfield", offset, NoNode, bytes, <<>>,
                  IF fail THEN "Bitfield" ELSE "none", <<>>)
  /\ IF Overflows(off)
     THEN /\ ret' = Panic("arithmetic overflow")
          /\ io' = <<>>
          /\ UNCHANGED bitfield
     ELSE IF fail
     THEN /\ ret' = Err("BackendFailure")
          /\ io' = <<Write("Bitfield", off.val, Len(bytes), FALSE)>>
          /\ UNCHANGED bitfield
     ELSE /\ ret' = Ok(Unit)
          /\ io' = <<Write("Bitfield", off.val, Len(bytes), TRUE)>>
          /\ bitfield' = StoreWrite(bitfield, off.val, bytes)
  /\ UNCHANGED <<engine, overflow_checks, tree, data, signatures, created>>

-----------------------------------------------------------------------------
(* Data.                                                                   *)

\* full_roots of the flat index after the block's leaf
ResolverRoots_next_leaf(index) == full_roots(ToNat(UsizeMul(2, index).val) + 2)

\* the roots data_offset collects: flat::full_roots(2 * index, &mut roots)
ResolverRoots(index) == full_roots(ToNat(UsizeMul(2, index).val))

\* data_offset: the (offset, size) it returns and the roots it collected.
\* With no root it returns (0, 0); with any root it reaches unimplemented!().
\* The cached nodes are never read.
data_offset(index, cached_nodes) ==
  LET blk == UsizeMul(2, index)
      roots == ResolverRoots(index)
      pending == Len(roots)
  IN  IF Overflows(blk)
      THEN Outcome(Panic("arithmetic overflow"), <<>>)
      ELSE IF pending = 0
      THEN Outcome(Ok(<<U(0), U(0)>>), roots)
      ELSE Outcome(Panic("not yet implemented"), roots)

call_data_offset(index, cached_nodes) ==
  LET d == data_offset(index, cached_nodes)
  IN
  /\ Serve
  /\ call' = Call("data_offset", index, NoNode, <<>>, cached_nodes, "none", d.collected)
  /\ ret' = d.result
  /\ io' = <<>>
  /\ UNCHANGED <<engine, overflow_checks, stores, created>>

\* put_data without the early return for empty data
put_data_no_early_return(index, bytes, nodes) ==
  LET d == data_offset(index, nodes)
  IN
  /\ Serve
  /\ call' = Call("put_data", index, NoNode, bytes, nodes, "none", d.collected)
  /\ IF d.result.tag # "Ok"
     THEN /\ ret' = d.result
          /\ io' = <<>>
          /\ UNCHANGED data
     ELSE IF d.result.val[2] # U(Len(bytes))
     THEN /\ ret' = Err("Unexpected size data")
          /\ io' = <<>>
          /\ UNCHANGED data
     ELSE /\ ret' = Ok(Unit)
          /\ io' = <<Write("Data", d.result.val[1], Len(bytes), TRUE)>>
          /\ data' = StoreWrite(data, d.result.val[1], bytes)
  /\ UNCHANGED <<engine, overflow_checks, tree, bitfield, signatures, created>>

put_data(index, bytes, nodes) ==
  LET d == data_offset(index, nodes)
  IN
  /\ Serve
  /\ IF bytes = <<>>
     THEN /\ call' = Call("put_data", index, NoNode, bytes, nodes, "none", <<>>)
          /\ ret' = Ok(Unit)
          /\ io' = <<>>
          /\ UNCHANGED data
     ELSE /\ call' = Call("put_data", index, NoNode, bytes, nodes, "none", d.collected)
          /\ IF d.result.tag # "Ok"
             THEN /\ ret' = d.result
                  /\ io' = <<>>
                  /\ UNCHANGED data
             ELSE IF d.result.val[2] # U(Len(bytes))
             THEN /\ ret' = Err("Unexpected size data")
                  /\ io' = <<>>
                  /\ UNCHANGED data
             ELSE /\ ret' = Ok(Unit)
                  /\ io' = <<Write("Data", d.result.val[1], Len(bytes), TRUE)>>
                  /\ data' = StoreWrite(data, d.result.val[1], bytes)
  /\ UNCHANGED <<engine, overflow_checks, tree, bitfield, signatures, created>>

-----------------------------------------------------------------------------
(* The engine.                                                             *)

Init ==
  /\ engine = "Uninitialized"
  /\ overflow_checks \in BOOLEAN
  /\ tree = EmptyStore
  /\ data = EmptyStore
  /\ bitfield = EmptyStore
  /\ signatures = EmptyStore
  /\ created = [k \in Kinds |-> 0]
  /\ calls = 0
  /\ call = Call("none", U(0), NoNode, <<>>, <<>>, "none", <<>>)
  /\ ret = Ok(Unit)
  /\ io = <<>>

Next ==
  \/ \E failAt \in FailInputs : with_storage(failAt)
  \/ \E index \in NodeIndexes, fail \in BOOLEAN :
       \E node \in NodeInputs(index) : put_node(index, node, fail)
  \/ \E index \in NodeIndexes, fail \in BOOLEAN : get_node(index, fail)
  \/ \E index \in RecordIndexes, signature \in SignatureInputs, fail \in BOOLEAN :
       put_signature(index, signature, fail)
  \/ \E offset \in BitfieldOffsets, bytes \in BitfieldInputs, fail \in BOOLEAN :
       put_bitfield(offset, bytes, fail)
  \/ \E index \in BlockIndexes, nodes \in CacheInputs :
       call_data_offset(index, nodes)
  \/ \E index \in BlockIndexes, bytes \in DataInputs, nodes \in CacheInputs :
       put_data(index, bytes, nodes)

Spec == Init /\ [][Next]_vars

-----------------------------------------------------------------------------
(* What the specification says of the resolver and of the record layout,   *)
(* used to state the claims.                                               *)

\* the number of leaves under a flat-tree index: 2^(number of trailing 1 bits)
RECURSIVE LeafCount(_)
LeafCount(i) == IF i % 2 = 0 THEN 1 ELSE 2 * LeafCount(i \div 2)

RECURSIVE SumLeafCounts(_)
SumLeafCounts(roots) ==
  IF roots = <<>> THEN 0 ELSE LeafCount(Head(roots)) + SumLeafCounts(Tail(roots))

StrictlyAscending(seq) == \A k \in 1..(Len(seq) - 1) : seq[k] < seq[k + 1]

RECURSIVE SumSizes(_, _)
\* the sum of the cached sizes of the nodes at the flat indexes `roots`
SumSizes(nodes, roots) ==
  IF roots = <<>>
  THEN U(0)
  ELSE UsizeAdd(find_node(nodes, U(Head(roots))).val.length,
                SumSizes(nodes, Tail(roots))).val

\* the flat indexes the resolution of block `index` needs: the full roots
\* left of the block and the block's own leaf
Required(index) ==
  LET roots == full_roots(2 * ToNat(index))
  IN  {roots[k] : k \in 1..Len(roots)} \cup {2 * ToNat(index)}

AllCached(index, nodes) ==
  \A r \in Required(index) : find_node(nodes, U(r)).tag = "Some"

\* (byteOffset, byteLength) of block `index` from the cache
Resolved(index, nodes) ==
  <<SumSizes(nodes, full_roots(2 * ToNat(index))),
    find_node(nodes, U(2 * ToNat(index))).val.length>>

\* base + size * index as a natural number, in five limbs: nothing is dropped
ExactOffset(base, size, index) ==
  LET t1 == base + size * index[1]
      t2 == (t1 \div LimbBase) + size * index[2]
      t3 == (t2 \div LimbBase) + size * index[3]
      t4 == (t3 \div LimbBase) + size * index[4]
  IN  <<t1 % LimbBase, t2 % LimbBase, t3 % LimbBase, t4 % LimbBase,
        t4 \div LimbBase>>

\* the usize `offset` is the natural number `exact`
IsOffset(offset, exact) ==
  exact = <<offset[1], offset[2], offset[3], offset[4], 0>>

IsWrite(w, store) == w.op = "write" /\ w.store = store

-----------------------------------------------------------------------------
(* Claims.                                                                 *)

\* C1: get_node(i) right after a successful put_node(i, node), when the tree
\* store serves the read, returns node (same index, hash and size); put_node
\* wrote the 40-byte record at byte offset 32 + 40*i of the tree store and
\* get_node read 40 bytes from that same offset.
C1_NodeRoundTrip ==
  [][(/\ call.op = "put_node"
      /\ ret.tag = "Ok"
      /\ call'.op = "get_node"
      /\ call'.index = call.index
      /\ call'.fail = "none")
     => (/\ ret' = Ok(call.node)
         /\ Len(io) = 1
         /\ IsWrite(io[1], "Tree")
         /\ io[1].len = 40
         /\ IsOffset(io[1].offset, ExactOffset(32, 40, call.index))
         /\ Len(io') = 1
         /\ io'[1].op = "read"
         /\ io'[1].store = "Tree"
         /\ io'[1].len = 40
         /\ IsOffset(io'[1].offset, ExactOffset(32, 40, call.index)))]_vars

\* C2: put_data with non-empty bytes whose length differs from the length the
\* cache resolves for the index fails with the size mismatch error, and no
\* write is issued.
C2_SizeMismatch ==
  (/\ call.op = "put_data"
   /\ call.bytes # <<>>
   /\ AllCached(call.index, call.nodes)
   /\ Resolved(call.index, call.nodes)[2] # U(Len(call.bytes)))
  => (ret = Err("Unexpected size data") /\ io = <<>>)

\* C3: put_data with empty bytes returns success for every index and every
\* cache, runs no resolver, issues no read or write, and leaves the four
\* stores as they were.
C3_EmptyPutData ==
  [][(call'.op = "put_data" /\ call'.bytes = <<>>)
     => (/\ ret' = Ok(Unit)
         /\ io' = <<>>
         /\ call'.roots = <<>>
         /\ stores' = stores)]_vars

C3_Witness ==
  /\ call.op = "put_data"
  /\ call.bytes = <<>>
  /\ call.index = U(1)
  /\ call.nodes = <<>>
  /\ ret = Ok(Unit)
  /\ io = <<>>

\* C4: when every node the block needs is cached, data_offset returns the sum
\* of the cached sizes of the full roots left of the block and the cached
\* size of the block's leaf; block 0 with a leaf of size 10 resolves to (0, 10).
C4_ResolvedOffset ==
  (call.op = "data_offset" /\ AllCached(call.index, call.nodes))
  => ret = Ok(Resolved(call.index, call.nodes))

\* C5: when the cache lacks a node the block needs, data_offset, and put_data
\* with non-empty bytes, return the MissingNode error and issue no read or
\* write.
C5_MissingNode ==
  (/\ \/ call.op = "data_offset"
      \/ call.op = "put_data" /\ call.bytes # <<>>
   /\ ~AllCached(call.index, call.nodes))
  => (ret = Err("MissingNode") /\ io = <<>>)

\* C6: a successful construction created one store per kind, wrote one
\* 32-byte header at offset 0 of the bitfield, signatures and tree stores,
\* each once, and nothing to the data store: the data store is empty and each
\* other store holds exactly the header of its kind.
C6_Construction ==
  (call.op = "with_storage" /\ ret.tag = "Ok")
  => (/\ created = [k \in Kinds |-> 1]
      /\ \A k \in {"Tree", "Bitfield", "Signatures"} :
           Cardinality({j \in 1..Len(io) : IsWrite(io[j], k)}) = 1
      /\ \A j \in 1..Len(io) :
           /\ io[j].op = "write"
           /\ io[j].store # "Data"
           /\ io[j].offset = U(0)
           /\ io[j].len = 32
           /\ io[j].ok
      /\ data = <<>>
      /\ tree = create_tree /\ Len(tree) = 32 /\ tree[4] = 2
      /\ signatures = create_signatures /\ Len(signatures) = 32 /\ signatures[4] = 1
      /\ bitfield = create_bitfield /\ Len(bitfield) = 32 /\ bitfield[4] = 0)

C6_Witness ==
  /\ call.op = "with_storage"
  /\ ret.tag = "Ok"
  /\ engine = "Open"
  /\ Len(io) = 3
  /\ Len(tree) = 32

\* C7: when a header write fails, with_storage returns the error, no engine
\* is open, the failed write was issued once and is the last write issued.
C7_AtomicConstruction ==
  (call.op = "with_storage" /\ call.fail # "none")
  => (/\ ret = Err("BackendFailure")
      /\ engine = "Uninitialized"
      /\ io # <<>>
      /\ IsWrite(io[Len(io)], call.fail)
      /\ ~io[Len(io)].ok
      /\ \A j \in 1..(Len(io) - 1) : io[j].ok /\ io[j].store # call.fail)

C7_Witness ==
  /\ call.op = "with_storage"
  /\ call.fail = "Signatures"
  /\ ret.tag = "Err"
  /\ Len(io) = 2
  /\ Len(bitfield) = 32
  /\ tree = <<>>

\* C8: the roots the resolver collects for block count n are strictly
\* ascending flat-tree indexes whose subtrees hold n leaves in all; for
\* n = 0, 1, 2, 3 they are [], [0], [1], [1, 4].
C8_FullRoots ==
  call.op = "data_offset"
  => LET n == ToNat(call.index)
         roots == call.roots
     IN  /\ StrictlyAscending(roots)
         /\ SumLeafCounts(roots) = n
         /\ n = 0 => roots = <<>>
         /\ n = 1 => roots = <<0>>
         /\ n = 2 => roots = <<1>>
         /\ n = 3 => roots = <<1, 4>>

C8_Witness ==
  /\ call.op = "data_offset"
  /\ call.index = U(3)
  /\ call.roots = <<1, 4>>

\* C9: while the engine is open, bytes 0..31 of the tree, signatures and
\* bitfield stores are the headers written at construction, and every write
\* the open engine issues to those stores starts at an offset >= 32.
C9_HeadersPreserved ==
  engine = "Open"
  => (/\ SubSeq(tree, 1, 32) = create_tree
      /\ SubSeq(signatures, 1, 32) = create_signatures
      /\ SubSeq(bitfield, 1, 32) = create_bitfield
      /\ call.op # "with_storage"
         => \A j \in 1..Len(io) :
              (io[j].op = "write" /\ io[j].store # "Data")
              => UsizeLeq(U(32), io[j].offset))

\* C10: put_signature(index, bytes) changes only bytes
\* [32 + 64*index, 32 + 64*index + 64) of the signatures store: every other
\* byte the store held, and the tree, data and bitfield stores, are unchanged.
C10_SignatureFrame ==
  [][call'.op = "put_signature"
     => (/\ \A k \in 1..Len(signatures) :
              (k <= 32 + 64 * ToNat(call'.index)
               \/ k > 32 + 64 * ToNat(call'.index) + 64)
              => signatures'[k] = signatures[k]
         /\ tree' = tree
         /\ data' = data
         /\ bitfield' = bitfield)]_vars

=============================================================================
